---- MODULE Spec2Model ----
(***************************************************************************)
(* Model of the /api/chat request handler of ghumakkad_node: structured    *)
(* city lookup (searchCity), semantic retrieval (embedQuery + rpc),        *)
(* context fusion, prompt composition, and the two response protocols      *)
(* (event stream and buffered JSON reply) with their catch blocks.         *)
(*                                                                         *)
(* Text is modelled as a sequence of atoms.  An atom is a one-character    *)
(* string where the code looks inside the text (queries, city and state    *)
(* names, snippet contents) and a whole literal where it does not (the     *)
(* fixed pieces of the templates).                                         *)
(*                                                                         *)
(* Each action is the code that runs between two awaits of the handler;    *)
(* a rejected await runs the catch block in the same step, as the catch    *)
(* block has no await of its own.  The collaborators (embedder, vector     *)
(* store, model, response channel) answer nondeterministically, and each   *)
(* call inside the try block may throw.  The calls of the catch block      *)
(* itself (res.status().json(), res.write(), res.end()) do not throw.      *)
(***************************************************************************)
EXTENDS Integers, Sequences, FiniteSets, TLC

VARIABLES
    cities,     \* AppDependencies.cities: the dataset handed to createApp
    protocol,   \* which createApp is deployed: "stream" or "buffered"
    pc,         \* per request: the await the handler is suspended at
    loc,        \* per request: the handler's local constants
    chat,       \* per request: the ChatSession (history and the message sent)
    res,        \* per request: the express Response object
    gen,        \* per request: the increments the model has produced so far
    fault,      \* per request: where the try block threw ("none" if nowhere)
    err,        \* per request: the message of the error the catch block caught
    calls,      \* per request: how often each collaborator was called
    auth        \* per request: the auth middleware's run and what it left on req

vars == <<cities, protocol, pc, loc, chat, res, gen, fault, err, calls, auth>>

----------------------------------------------------------------------------
(* Bounds of the model *)

MaxQLen == 3        \* longest query, in characters
MaxCities == 2      \* most records in a dataset
MaxRows == 2        \* most rows the similarity search returns
MaxChunks == 2      \* most increments the model yields

Reqs == {"r1", "r2"}

----------------------------------------------------------------------------
(* Text *)

RECURSIVE SeqsUpTo(_, _)
SeqsUpTo(S, n) ==
    IF n = 0 THEN {<<>>}
    ELSE LET shorter == SeqsUpTo(S, n - 1)
         IN  shorter \cup {Append(s, x) : s \in shorter, x \in S}

\* String.prototype.toLowerCase, one character
LowerChar(c) ==
    CASE c = "A" -> "a"
      [] c = "B" -> "b"
      [] c = "C" -> "c"
      [] OTHER -> c

toLowerCase(s) == [i \in 1..Len(s) |-> LowerChar(s[i])]

\* String.prototype.includes: sub occurs in s as a contiguous run
includes(s, sub) ==
    \E i \in 1..(Len(s) + 1) :
        /\ i + Len(sub) - 1 <= Len(s)
        /\ SubSeq(s, i, i + Len(sub) - 1) = sub

\* \w of a JavaScript regular expression: [A-Za-z0-9_]
IsWordChar(c) == c \in {"a", "b", "c", "A", "B", "C", "x", "y", "_"}

IsSpace(c) == c = " "

\* String.prototype.trim
RECURSIVE trimStart(_)
trimStart(s) ==
    IF Len(s) > 0 /\ IsSpace(s[1]) THEN trimStart(Tail(s)) ELSE s

RECURSIVE trimEnd(_)
trimEnd(s) ==
    IF Len(s) > 0 /\ IsSpace(s[Len(s)])
    THEN trimEnd(SubSeq(s, 1, Len(s) - 1)) ELSE s

trim(s) == trimEnd(trimStart(s))

\* s.split(/\W+/): cut at every maximal run of non-word characters; a run at
\* the start or the end leaves an empty piece, and "" splits into [""].
RECURSIVE SplitFrom(_, _, _, _)
SplitFrom(s, i, cur, out) ==
    IF i > Len(s) THEN Append(out, cur)
    ELSE IF IsWordChar(s[i]) THEN SplitFrom(s, i + 1, Append(cur, s[i]), out)
    ELSE IF i > 1 /\ ~IsWordChar(s[i - 1]) THEN SplitFrom(s, i + 1, cur, out)
    ELSE SplitFrom(s, i + 1, <<>>, Append(out, cur))

splitNonWord(s) == SplitFrom(s, 1, <<>>, <<>>)

\* Array.prototype.join over texts
RECURSIVE join(_, _)
join(parts, sep) ==
    IF Len(parts) = 0 THEN <<>>
    ELSE IF Len(parts) = 1 THEN parts[1]
    ELSE parts[1] \o sep \o join(Tail(parts), sep)

\* a number inside a template literal
NumText(n) == <<ToString(n)>>

----------------------------------------------------------------------------
(* The city dataset (types/travelDataTypes.ts) and searchCity (utils.ts) *)

CityNames == {<<"a">>, <<"B", "c">>, <<"c", "a">>}
StateNames == {<<"c">>, <<"a", "b">>}

\* One City record per (city, state); the costs and spots are fixed by them.
MkCity(city, state) ==
    [city |-> city,
     state |-> state,
     avgHotelPerNight |-> 1000 * (Len(city) + 1),
     avgFoodPerDay |-> 100 * (Len(state) + 1),
     topSpots |-> IF Len(city) = 1
                  THEN <<[name |-> <<"x">>], [name |-> <<"y">>]>>
                  ELSE <<[name |-> <<"y">>]>>]

CityPool == {MkCity(c, s) : c \in CityNames, s \in StateNames}

\* the datasets: up to MaxCities records, no two for the same city
Datasets ==
    {d \in SeqsUpTo(CityPool, MaxCities) :
        \A i, j \in 1..Len(d) : d[i].city = d[j].city => i = j}

QueryChars == {"a", "B", "c", " "}

Queries == SeqsUpTo(QueryChars, MaxQLen)

\* variant of DirectMatch: the state name is not looked at
DirectMatch_cityOnly(q, c) == includes(q, toLowerCase(c.city))

\* variant of DirectMatch: the query is looked for inside the names
DirectMatch_reversed(q, c) ==
    \/ includes(toLowerCase(c.city), q)
    \/ includes(toLowerCase(c.state), q)

\* first tier of searchCity: city or state name inside the lowercased query
\* (the token tier is kept apart so that a change to it can be told)
DirectMatch(q, c) ==
    \/ includes(q, toLowerCase(c.city))
    \/ includes(q, toLowerCase(c.state))

\* variant of WordMatch: a token that begins the city name matches it
WordMatch_prefix(words, c) ==
    \E i \in 1..Len(words) :
        /\ Len(words[i]) > 0
        /\ Len(words[i]) <= Len(c.city)
        /\ SubSeq(toLowerCase(c.city), 1, Len(words[i])) = words[i]

\* second tier of searchCity: some token of the query equals the city name
WordMatch(words, c) ==
    \E i \in 1..Len(words) : toLowerCase(c.city) = words[i]

\* variant of searchCity: the token tier is asked first, the substring tier
\* only when no token matches
searchCity_tokenFirst(query, cs) ==
    LET q == toLowerCase(query)
        Direct(c) == DirectMatch(q, c)
        words == splitNonWord(q)
        Word(c) == WordMatch(words, c)
        hits == SelectSeq(cs, Word)
    IN  IF Len(hits) > 0 THEN hits ELSE SelectSeq(cs, Direct)

\* Array.prototype.filter is SelectSeq
searchCity(query, cs) ==
    LET q == toLowerCase(query)
        Direct(c) == DirectMatch(q, c)
        hits == SelectSeq(cs, Direct)
        words == splitNonWord(q)
        Word(c) == WordMatch(words, c)
    IN  IF Len(hits) > 0 THEN hits ELSE SelectSeq(cs, Word)

----------------------------------------------------------------------------
(* Context fusion and prompt composition (the synchronous parts of the     *)
(* handler)                                                                *)

NoCityText == <<"No specific city found in my database.">>

\* variant of StructuredContext: the text is made from the last hit
StructuredContext_lastHit(cityHits) ==
    IF Len(cityHits) > 0
    THEN LET c == cityHits[Len(cityHits)]
             names == [i \in 1..Len(c.topSpots) |-> c.topSpots[i].name]
         IN  <<"Found Data: ">> \o c.city
               \o <<", STATE:">> \o c.state
               \o <<", HOTEL:">> \o NumText(c.avgHotelPerNight)
               \o <<", FOOD:">> \o NumText(c.avgFoodPerDay)
               \o <<", SPOTS:">> \o join(names, <<", ">>)
    ELSE NoCityText

\* lines 106-114: the structured-data text, from the first hit only
StructuredContext(cityHits) ==
    IF Len(cityHits) > 0
    THEN LET c == cityHits[1]
             names == [i \in 1..Len(c.topSpots) |-> c.topSpots[i].name]
         IN  <<"Found Data: ">> \o c.city
               \o <<", STATE:">> \o c.state
               \o <<", HOTEL:">> \o NumText(c.avgHotelPerNight)
               \o <<", FOOD:">> \o NumText(c.avgFoodPerDay)
               \o <<", SPOTS:">> \o join(names, <<", ">>)
    ELSE NoCityText

\* A row of the similarity search.  hasMetadata = FALSE is a row without a
\* metadata object, on which doc.metadata.source throws a TypeError.
SnippetTexts == {<<"x">>, <<"$", "&">>, <<"{context}">>}

MkRow(ok, content) == [hasMetadata |-> ok, source |-> <<"y">>, content |-> content]

RowPool == {MkRow(TRUE, t) : t \in SnippetTexts} \cup {MkRow(FALSE, <<"x">>)}

\* What supabaseClient.rpc resolves to: {data, error}
RpcResults ==
    {[dataNull |-> FALSE, data |-> rows, error |-> <<>>] :
        rows \in SeqsUpTo(RowPool, MaxRows)}
      \cup {[dataNull |-> TRUE, data |-> <<>>, error |-> <<>>]}
      \cup {[dataNull |-> TRUE, data |-> <<>>, error |-> <<m>>] :
        m \in {"db down", "bad vector"}}

\* ragData || []
OrEmptyRows(r) == IF r.dataNull THEN <<>> ELSE r.data

\* variant of RowsThrow: an empty result is refused as well
RowsThrow_onEmpty(rows) ==
    Len(rows) = 0 \/ \E i \in 1..Len(rows) : ~rows[i].hasMetadata

\* lines 148-153 throw when a row has no metadata
RowsThrow(rows) == \E i \in 1..Len(rows) : ~rows[i].hasMetadata

\* variant of RagContext: the entries are joined last row first
RagContext_reversed(rows) ==
    join([i \in 1..Len(rows) |->
            <<"[From ">> \o rows[Len(rows) + 1 - i].source \o <<"]: ">>
              \o rows[Len(rows) + 1 - i].content],
         <<"\n---\n">>)

\* lines 148-153
RagContext(rows) ==
    join([i \in 1..Len(rows) |->
            <<"[From ">> \o rows[i].source \o <<"]: ">> \o rows[i].content],
         <<"\n---\n">>)

\* lines 156-159
FinalContext(structuredContext, ragContext) ==
    <<"\n        Structured Data: ">> \o structuredContext
      \o <<"\n        RAG Context: ">> \o ragContext
      \o <<"\n      ">>

\* lines 64-94: the persona template, around its one placeholder
Placeholder == "{context}"
systemPrompt == <<"<persona, up to **CONTEXT:**>", Placeholder, "<rules>">>

\* position of the first occurrence of an atom, 0 if there is none
IndexOf(s, atom) ==
    IF \E i \in 1..Len(s) : s[i] = atom
    THEN CHOOSE i \in 1..Len(s) : s[i] = atom /\ \A j \in 1..(i - 1) : s[j] # atom
    ELSE 0

\* The replacement text of String.prototype.replace(string, string): "$$" is
\* a "$", "$&" the match, "$" and a backquote the text before it, "$'" the
\* text after it.  BackQuote stands for the backquote character.
BackQuote == "<backquote>"

RECURSIVE ExpandReplacement(_, _, _, _)
ExpandReplacement(rep, before, match, after) ==
    IF Len(rep) = 0 THEN <<>>
    ELSE IF rep[1] = "$" /\ Len(rep) >= 2 /\ rep[2] \in {"$", "&", BackQuote, "'"}
    THEN (CASE rep[2] = "$" -> <<"$">>
            [] rep[2] = "&" -> match
            [] rep[2] = BackQuote -> before
            [] OTHER -> after)
           \o ExpandReplacement(SubSeq(rep, 3, Len(rep)), before, match, after)
    ELSE <<rep[1]>> \o ExpandReplacement(Tail(rep), before, match, after)

\* String.prototype.replace with a string pattern: the first occurrence only
replace(s, pattern, rep) ==
    LET i == IndexOf(s, pattern)
    IN  IF i = 0 THEN s
        ELSE LET before == SubSeq(s, 1, i - 1)
                 after == SubSeq(s, i + 1, Len(s))
             IN  before \o ExpandReplacement(rep, before, <<pattern>>, after) \o after

\* lines 161-164
FinalSystemPrompt(finalContext) == replace(systemPrompt, Placeholder, finalContext)

AckText == <<"Okie dokie! Ready to help plan the best trip ever!">>

\* lines 166-179
History(finalContext) ==
    <<[role |-> "user", text |-> FinalSystemPrompt(finalContext)],
      [role |-> "model", text |-> AckText]>>

----------------------------------------------------------------------------
(* The express Response object *)

NewResponse ==
    [headersSent |-> FALSE,     \* res.headersSent
     statusCode |-> 200,        \* res.statusCode
     contentType |-> "none",    \* the Content-Type header
     json |-> <<>>,             \* the payloads sent with res.json()
     events |-> <<>>,           \* the events written with res.write()
     ended |-> FALSE]           \* res.end() has run

\* res.status(code).json(payload): sets the status, sends the headers and the
\* payload, ends the response
resJson(rs, code, payload) ==
    [rs EXCEPT !.statusCode = code,
               !.contentType = "application/json",
               !.headersSent = TRUE,
               !.json = Append(@, payload),
               !.ended = TRUE]

\* variant of resFlushEventStream: the headers are set but not flushed before
\* the model is called
resFlushEventStream_notFlushed(rs) == [rs EXCEPT !.contentType = "text/event-stream"]

\* lines 187-190: res.setHeader(...) three times, res.flushHeaders()
resFlushEventStream(rs) ==
    [rs EXCEPT !.contentType = "text/event-stream", !.headersSent = TRUE]

\* variant of resWrite: an event equal to the one just written is dropped
resWrite_dropRepeat(rs, event) ==
    IF Len(rs.events) > 0 /\ rs.events[Len(rs.events)] = event
    THEN rs
    ELSE [rs EXCEPT !.events = Append(@, event)]

\* res.write("data: " + JSON.stringify(event) + "\n\n")
resWrite(rs, event) == [rs EXCEPT !.events = Append(@, event)]

\* variant of resEnd: the channel is left open
resEnd_noop(rs) == rs

\* res.end()
resEnd(rs) == [rs EXCEPT !.ended = TRUE]

TextEvent(t) == [type |-> "text", value |-> t]
DoneEvent == [type |-> "done", value |-> <<>>]
ErrorEvent(message) == [type |-> "error", value |-> message]

\* lines 210-212 and 385-387
ErrorReply == [reply |-> <<"Aiyoo server ko thoda pani de do brb!">>]

\* variant of CatchStream: the 500 payload is sent whether or not the headers
\* were sent
CatchStream_always500(rs, message) == resJson(rs, 500, ErrorReply)

\* variant of CatchStream: the error event is written whether or not the
\* headers were sent
CatchStream_alwaysEvent(rs, message) == resEnd(resWrite(rs, ErrorEvent(message)))

\* lines 206-220: the catch block of the streaming handler
CatchStream(rs, message) ==
    IF ~rs.headersSent
    THEN resJson(rs, 500, ErrorReply)
    ELSE resEnd(resWrite(rs, ErrorEvent(message)))

\* variant of CatchBuffered: the caught error's message is the reply
CatchBuffered_leak(rs, message) == resJson(rs, 500, [reply |-> message])

\* lines 383-388: the catch block of the buffered handler
CatchBuffered(rs, message) == resJson(rs, 500, ErrorReply)

----------------------------------------------------------------------------
(* The handler *)

Protocols == {"stream", "buffered"}

\* messages of the errors the collaborators raise
ErrMsgs == {<<"quota">>, <<"timeout">>}

\* increments of the model's answer
Chunks == {"x", "y"}

\* req.body.query: a string, absent, or a JSON value that is no string
RawQueries(texts) ==
    {[kind |-> "string", text |-> t] : t \in texts}
      \cup {[kind |-> "missing", text |-> <<>>], [kind |-> "other", text |-> <<>>]}

\* line 101: (query || "").trim() throws on a truthy value that is no string
QueryThrows(raw) == raw.kind = "other"

\* line 101
TrimmedQuery(raw) == IF raw.kind = "string" THEN trim(raw.text) ELSE <<>>

NoLocals ==
    [q |-> <<>>, cityHits |-> <<>>, structuredContext |-> <<>>,
     rpcError |-> <<>>, dataNull |-> FALSE, ragData |-> <<>>,
     ragContext |-> <<>>, finalContext |-> <<>>]

NoChat == [history |-> <<>>, sent |-> <<>>]

NoCalls == [embed |-> 0, rpc |-> 0, model |-> 0]

\* what supabase.auth.getUser resolved to, before it has
NoResult == [dataNull |-> FALSE, error |-> <<>>, user |-> <<>>]

\* the auth middleware before it ran (the buffered handler is mounted
\* without it, line 293)
NoAuth ==
    [pc |-> "start", header |-> [present |-> FALSE, text |-> <<>>],
     token |-> <<>>, settled |-> "no", result |-> NoResult,
     user |-> <<>>, nexts |-> 0, sent |-> 0]

\* the auth middleware after it verified a token and called next()
Verified ==
    [pc |-> "done", header |-> [present |-> TRUE, text |-> <<"Bearer", " ", "t">>],
     token |-> <<"t">>, settled |-> "resolved",
     result |-> [dataNull |-> FALSE, error |-> <<>>, user |-> <<"u1">>],
     user |-> <<"u1">>, nexts |-> 1, sent |-> 0]

\* lines 100-114
Lookup(raw) ==
    LET q == TrimmedQuery(raw)
        cityHits == searchCity(q, cities)
    IN  [NoLocals EXCEPT !.q = q,
                         !.cityHits = cityHits,
                         !.structuredContext = StructuredContext(cityHits)]

\* lines 144-159
Fuse(l, rows) ==
    LET ragContext == RagContext(rows)
    IN  [l EXCEPT !.ragData = rows,
                  !.ragContext = ragContext,
                  !.finalContext = FinalContext(l.structuredContext, ragContext)]

\* variant of RpcFailed: the error of the rpc is ignored
RpcFailed_ignored(result) == FALSE

\* line 137 (329): if (rpcError)
RpcFailed(result) == result.error # <<>>

\* the catch block of the deployed handler
Catch(rs, message) ==
    IF protocol = "stream" THEN CatchStream(rs, message)
    ELSE CatchBuffered(rs, message)

\* the try block threw at `point` with `message`; the catch block runs
Throw(r, point, message, rs) ==
    /\ res' = [res EXCEPT ![r] = Catch(rs, message)]
    /\ fault' = [fault EXCEPT ![r] = point]
    /\ err' = [err EXCEPT ![r] = message]
    /\ pc' = [pc EXCEPT ![r] = "done"]

\* lines 99-121 (293-316): from the request to the embedQuery call.
\* searchCity throws on a record whose city or state is no string.
Receive(r) ==
    /\ pc[r] = "idle"
    /\ \E raw \in RawQueries({<<" ", "a">>, <<"B">>}), lookupThrows \in BOOLEAN,
          m \in ErrMsgs :
         IF QueryThrows(raw)
         THEN /\ Throw(r, "query", m, res[r])
              /\ UNCHANGED <<loc, calls>>
         ELSE IF lookupThrows
         THEN /\ Throw(r, "lookup", m, res[r])
              /\ UNCHANGED <<loc, calls>>
         ELSE /\ loc' = [loc EXCEPT ![r] = Lookup(raw)]
              /\ calls' = [calls EXCEPT ![r].embed = @ + 1]
              /\ pc' = [pc EXCEPT ![r] = "embedQuery"]
              /\ UNCHANGED <<res, fault, err>>
    /\ UNCHANGED <<cities, protocol, chat, gen>>

\* lines 122-135 (317-327): embedQuery resolved; the rpc is called
EmbedResolved(r) ==
    /\ pc[r] = "embedQuery"
    /\ calls' = [calls EXCEPT ![r].rpc = @ + 1]
    /\ pc' = [pc EXCEPT ![r] = "rpc"]
    /\ UNCHANGED <<cities, protocol, auth, loc, chat, res, gen, fault, err>>

\* variant of EmbedRejected: the first rejection is answered by a second call
EmbedRejected_retry(r) ==
    /\ pc[r] = "embedQuery"
    /\ IF calls[r].embed < 2
       THEN /\ calls' = [calls EXCEPT ![r].embed = @ + 1]
            /\ UNCHANGED <<pc, res, fault, err>>
       ELSE /\ \E m \in ErrMsgs : Throw(r, "embed", m, res[r])
            /\ UNCHANGED calls
    /\ UNCHANGED <<cities, protocol, auth, loc, chat, gen>>

\* line 121 (316): embedQuery rejected
EmbedRejected(r) ==
    /\ pc[r] = "embedQuery"
    /\ \E m \in ErrMsgs : Throw(r, "embed", m, res[r])
    /\ UNCHANGED <<cities, protocol, auth, loc, chat, gen, calls>>

\* lines 137-193 (329-378): the rpc resolved with {data, error}; the context
\* is fused, the chat session started, and the model called.  In the streaming
\* handler the event-stream headers are flushed before the model is called.
RpcResolved(r) ==
    /\ pc[r] = "rpc"
    /\ \E result \in RpcResults, startChatThrows \in BOOLEAN, m \in ErrMsgs :
         LET rows == OrEmptyRows(result)
             l == Fuse([loc[r] EXCEPT !.rpcError = result.error,
                                      !.dataNull = result.dataNull], rows)
         IN  IF RpcFailed(result)
             THEN /\ Throw(r, "rpc",
                           <<"Failed to match documents: ">> \o result.error, res[r])
                  /\ loc' = [loc EXCEPT ![r].rpcError = result.error,
                                        ![r].dataNull = result.dataNull]
                  /\ UNCHANGED <<chat, calls>>
             ELSE IF RowsThrow(rows)
             THEN /\ Throw(r, "rows", <<"TypeError">>, res[r])
                  /\ loc' = [loc EXCEPT ![r].rpcError = result.error,
                                        ![r].dataNull = result.dataNull,
                                        ![r].ragData = rows]
                  /\ UNCHANGED <<chat, calls>>
             ELSE IF startChatThrows
             THEN /\ Throw(r, "startChat", m, res[r])
                  /\ loc' = [loc EXCEPT ![r] = l]
                  /\ UNCHANGED <<chat, calls>>
             ELSE /\ loc' = [loc EXCEPT ![r] = l]
                  /\ chat' = [chat EXCEPT ![r] =
                                [history |-> History(l.finalContext), sent |-> l.q]]
                  /\ calls' = [calls EXCEPT ![r].model = @ + 1]
                  /\ IF protocol = "stream"
                     THEN /\ res' = [res EXCEPT ![r] = resFlushEventStream(@)]
                          /\ pc' = [pc EXCEPT ![r] = "sendMessageStream"]
                     ELSE /\ res' = res
                          /\ pc' = [pc EXCEPT ![r] = "sendMessage"]
                  /\ UNCHANGED <<fault, err>>
    /\ UNCHANGED <<cities, protocol, auth, gen>>

\* lines 193-196: sendMessageStream resolved; the loop asks for an increment
StreamOpened(r) ==
    /\ pc[r] = "sendMessageStream"
    /\ pc' = [pc EXCEPT ![r] = "stream"]
    /\ UNCHANGED <<cities, protocol, auth, loc, chat, res, gen, fault, err, calls>>

\* line 193: sendMessageStream rejected, before any output of the model
StreamRequestRejected(r) ==
    /\ pc[r] = "sendMessageStream"
    /\ \E m \in ErrMsgs : Throw(r, "streamRequest", m, res[r])
    /\ UNCHANGED <<cities, protocol, auth, loc, chat, gen, calls>>

\* variant of NextChunk: the chunk is written to every channel that is
\* streaming, as with a response object kept outside the handler
NextChunk_broadcast(r) ==
    /\ pc[r] = "stream"
    /\ Len(gen[r]) < MaxChunks
    /\ \E c \in Chunks :
         /\ gen' = [gen EXCEPT ![r] = Append(@, c)]
         /\ res' = [s \in Reqs |->
                      IF pc[s] = "stream" THEN resWrite(res[s], TextEvent(c))
                      ELSE res[s]]
    /\ UNCHANGED <<cities, protocol, auth, pc, loc, chat, fault, err, calls>>

\* lines 196-200: the stream yielded a chunk; chunk.text() or res.write() may
\* throw, and then nothing of this chunk is written
NextChunk(r) ==
    /\ pc[r] = "stream"
    /\ Len(gen[r]) < MaxChunks
    /\ \E c \in Chunks, point \in {"none", "chunkText", "write"}, m \in ErrMsgs :
         /\ gen' = [gen EXCEPT ![r] = Append(@, c)]
         /\ IF point = "none"
            THEN /\ res' = [res EXCEPT ![r] = resWrite(@, TextEvent(c))]
                 /\ UNCHANGED <<pc, fault, err>>
            ELSE Throw(r, point, m, res[r])
    /\ UNCHANGED <<cities, protocol, auth, loc, chat, calls>>

\* line 196: the stream failed instead of yielding
StreamRejected(r) ==
    /\ pc[r] = "stream"
    /\ \E m \in ErrMsgs : Throw(r, "increment", m, res[r])
    /\ UNCHANGED <<cities, protocol, auth, loc, chat, gen, calls>>

\* lines 202-205: the stream completed; the done event is written and the
\* response ended.  Both calls are inside the try block: when res.write()
\* throws the done event is not written, when res.end() throws it is.
StreamCompleted(r) ==
    /\ pc[r] = "stream"
    /\ \E point \in {"none", "doneWrite", "close"}, m \in ErrMsgs :
         CASE point = "none" ->
                /\ res' = [res EXCEPT ![r] = resEnd(resWrite(@, DoneEvent))]
                /\ pc' = [pc EXCEPT ![r] = "done"]
                /\ UNCHANGED <<fault, err>>
           [] point = "doneWrite" -> Throw(r, point, m, res[r])
           [] point = "close" -> Throw(r, point, m, resWrite(res[r], DoneEvent))
    /\ UNCHANGED <<cities, protocol, auth, loc, chat, gen, calls>>

\* line 378: while sendMessage is awaited the model produces its answer
MessageGenerated(r) ==
    /\ pc[r] = "sendMessage"
    /\ Len(gen[r]) < MaxChunks
    /\ \E c \in Chunks : gen' = [gen EXCEPT ![r] = Append(@, c)]
    /\ UNCHANGED <<cities, protocol, auth, pc, loc, chat, res, fault, err, calls>>

\* lines 378-382: sendMessage resolved with the whole answer; response.text()
\* or res.json() may throw, and then no reply is sent
MessageResolved(r) ==
    /\ pc[r] = "sendMessage"
    /\ \E point \in {"none", "responseText", "json"}, m \in ErrMsgs :
         IF point = "none"
         THEN /\ res' = [res EXCEPT ![r] = resJson(@, 200, [reply |-> gen[r]])]
              /\ pc' = [pc EXCEPT ![r] = "done"]
              /\ UNCHANGED <<fault, err>>
         ELSE Throw(r, point, m, res[r])
    /\ UNCHANGED <<cities, protocol, auth, loc, chat, gen, calls>>

\* variant of MessageRejected: what the model had produced is sent as the reply
MessageRejected_partial(r) ==
    /\ pc[r] = "sendMessage"
    /\ \E m \in ErrMsgs :
         /\ res' = [res EXCEPT ![r] = resJson(@, 200, [reply |-> gen[r]])]
         /\ fault' = [fault EXCEPT ![r] = "message"]
         /\ err' = [err EXCEPT ![r] = m]
         /\ pc' = [pc EXCEPT ![r] = "done"]
    /\ UNCHANGED <<cities, protocol, auth, loc, chat, gen, calls>>

\* line 378: sendMessage rejected
MessageRejected(r) ==
    /\ pc[r] = "sendMessage"
    /\ \E m \in ErrMsgs : Throw(r, "message", m, res[r])
    /\ UNCHANGED <<cities, protocol, auth, loc, chat, gen, calls>>

----------------------------------------------------------------------------
(* One request against either deployment *)

SampleDatasets ==
    {<<>>, <<MkCity(<<"a">>, <<"c">>), MkCity(<<"B", "c">>, <<"c">>)>>}

InitRequests(live) ==
    /\ protocol \in Protocols
    /\ pc = [r \in Reqs |-> IF r \in live THEN "idle" ELSE "off"]
    /\ loc = [r \in Reqs |-> NoLocals]
    /\ chat = [r \in Reqs |-> NoChat]
    /\ res = [r \in Reqs |-> NewResponse]
    /\ gen = [r \in Reqs |-> <<>>]
    /\ fault = [r \in Reqs |-> "none"]
    /\ err = [r \in Reqs |-> <<>>]
    /\ calls = [r \in Reqs |-> NoCalls]
    /\ auth = [r \in Reqs |->
                IF r \in live /\ protocol = "stream" THEN Verified ELSE NoAuth]

Init ==
    /\ cities \in SampleDatasets
    /\ InitRequests({"r1"})

Next ==
    \E r \in Reqs :
        \/ Receive(r) /\ UNCHANGED auth
        \/ EmbedResolved(r)
        \/ EmbedRejected(r)
        \/ RpcResolved(r)
        \/ StreamOpened(r)
        \/ StreamRequestRejected(r)
        \/ NextChunk(r)
        \/ StreamRejected(r)
        \/ StreamCompleted(r)
        \/ MessageGenerated(r)
        \/ MessageResolved(r)
        \/ MessageRejected(r)

Spec == Init /\ [][Next]_vars

----------------------------------------------------------------------------
(* Properties of the response protocol *)

IsTerminal(e) == e.type \in {"done", "error"}

CountOf(events, type) == Cardinality({i \in 1..Len(events) : events[i].type = type})

\* where the try block of the streaming handler can throw before line 190
\* (flushHeaders) and after it
PreCommitPoints == {"query", "lookup", "embed", "rpc", "rows", "startChat"}
PostCommitPoints ==
    {"streamRequest", "increment", "chunkText", "write", "doneWrite", "close"}

\* where the model provider (not the channel) fails
ProviderPoints == {"streamRequest", "increment", "message"}

TextEvents(chunks) == [i \in 1..Len(chunks) |-> TextEvent(chunks[i])]

\* C1: in the streaming handler, whatever fails, the events written hold at
\* most one terminal event (done or error) and nothing follows it.
C1_NothingAfterTerminal ==
    \A r \in Reqs :
        protocol = "stream" =>
            \A i \in 1..Len(res[r].events) :
                IsTerminal(res[r].events[i]) => i = Len(res[r].events)

\* C2: in the streaming handler a failure after the headers were flushed gives
\* exactly one error event, the last event on the channel, and the channel is
\* closed; the status stays 200 and no JSON payload is sent.
C2_MidSendFailure ==
    \A r \in Reqs :
        (protocol = "stream" /\ fault[r] \in PostCommitPoints) =>
            /\ CountOf(res[r].events, "error") = 1
            /\ res[r].events[Len(res[r].events)] = ErrorEvent(err[r])
            /\ res[r].ended
            /\ res[r].statusCode = 200
            /\ res[r].json = <<>>
            /\ res[r].contentType = "text/event-stream"

C2_Witness ==
    \E r \in Reqs :
        /\ protocol = "stream"
        /\ fault[r] = "write"
        /\ Len(res[r].events) = 2
        /\ res[r].ended

\* C3: in the streaming handler a failure before the headers are flushed gives
\* one JSON response with status 500 and no stream event.
C3_PreSendFailure ==
    \A r \in Reqs :
        (protocol = "stream" /\ fault[r] \in PreCommitPoints) =>
            /\ Len(res[r].json) = 1
            /\ res[r].statusCode = 500
            /\ res[r].contentType = "application/json"
            /\ res[r].events = <<>>
            /\ res[r].ended

C3_Witness ==
    \E r \in Reqs :
        /\ protocol = "stream"
        /\ fault[r] = "startChat"
        /\ Len(loc[r].ragData) > 0
        /\ res[r].statusCode = 500

\* C4 as stated: in streaming mode a failure of the model provider before any
\* output of the model gives the pre-send response (500 payload, no event).
C4_ProviderFailureBeforeOutputIsPreSend ==
    \A r \in Reqs :
        (protocol = "stream" /\ fault[r] \in ProviderPoints /\ gen[r] = <<>>) =>
            /\ res[r].json = <<ErrorReply>>
            /\ res[r].statusCode = 500
            /\ res[r].events = <<>>

\* C4 amended: in streaming mode every failure of the model provider, before
\* or after the first output, gives an error event with the provider's message
\* on the open channel and closes it, with no payload and the status left at
\* 200; in buffered mode every failure of the provider gives the 500 payload.
C4_ProviderFailure ==
    \A r \in Reqs :
        fault[r] \in ProviderPoints =>
            IF protocol = "stream"
            THEN /\ res[r].events = TextEvents(gen[r]) \o <<ErrorEvent(err[r])>>
                 /\ res[r].ended
                 /\ res[r].json = <<>>
                 /\ res[r].statusCode = 200
            ELSE /\ res[r].json = <<ErrorReply>>
                 /\ res[r].statusCode = 500
                 /\ res[r].events = <<>>

C4_Witness ==
    \E r \in Reqs :
        /\ protocol = "stream"
        /\ fault[r] = "streamRequest"
        /\ gen[r] = <<>>
        /\ res[r].events = <<ErrorEvent(err[r])>>

\* C5: in streaming mode with no failure the events are one text event per
\* increment of the model, in the order yielded, then one done event, and the
\* channel is closed after it (and not before).
C5_EventsFollowIncrements ==
    \A r \in Reqs :
        (protocol = "stream" /\ fault[r] = "none") =>
            /\ pc[r] = "stream" =>
                  (res[r].events = TextEvents(gen[r]) /\ ~res[r].ended)
            /\ pc[r] = "done" =>
                  (res[r].events = TextEvents(gen[r]) \o <<DoneEvent>> /\ res[r].ended)

C5_Witness ==
    \E r \in Reqs :
        /\ protocol = "stream"
        /\ fault[r] = "none"
        /\ pc[r] = "done"
        /\ Len(gen[r]) = MaxChunks
        /\ gen[r][1] # gen[r][2]
        /\ Len(res[r].events) = MaxChunks + 1

\* a pre-send failure: any failure of the buffered handler, and a failure
\* before line 190 of the streaming handler
PreSendFailed(r) ==
    \/ protocol = "buffered" /\ fault[r] # "none"
    \/ protocol = "stream" /\ fault[r] \in PreCommitPoints

\* C6: whatever the cause and its message, a pre-send failure sends the same
\* body (the fixed reply) with the same status, and no part of the caught
\* error's message is in it.
C6_FixedPreSendPayload ==
    \A r \in Reqs :
        PreSendFailed(r) =>
            /\ res[r].json = <<ErrorReply>>
            /\ res[r].statusCode = 500
            /\ \A i \in 1..Len(err[r]) : \A j \in 1..Len(res[r].json[1].reply) :
                   res[r].json[1].reply[j] # err[r][i]

C6_Witness ==
    \E r \in Reqs :
        /\ protocol = "buffered"
        /\ fault[r] = "rpc"
        /\ err[r] = <<"Failed to match documents: ", "db down">>
        /\ res[r].json = <<ErrorReply>>

\* C7: in buffered mode nothing is sent while the handler runs; at the end
\* exactly one response was sent, the whole answer of the model with status
\* 200 when nothing failed and the fixed reply with status 500 otherwise; no
\* event is ever written.
C7_BufferedOneResponse ==
    \A r \in Reqs :
        protocol = "buffered" =>
            /\ res[r].events = <<>>
            /\ pc[r] # "done" => res[r] = NewResponse
            /\ pc[r] = "done" =>
                  /\ Len(res[r].json) = 1
                  /\ res[r].ended
                  /\ IF fault[r] = "none"
                     THEN res[r].json[1] = [reply |-> gen[r]] /\ res[r].statusCode = 200
                     ELSE res[r].json[1] = ErrorReply /\ res[r].statusCode = 500

C7_Witness ==
    \E r \in Reqs :
        /\ protocol = "buffered"
        /\ pc[r] = "done"
        /\ fault[r] = "message"
        /\ Len(gen[r]) = 1
        /\ res[r].json = <<ErrorReply>>

\* C8: when embedQuery fails or the rpc returns an error, the model is never
\* called, no chat message is sent, no event-stream headers are committed and
\* the caller gets the pre-send error response, also when searchCity found a
\* city.
C8_RetrievalFailureFailsRequest ==
    \A r \in Reqs :
        (fault[r] = "embed" \/ loc[r].rpcError # <<>>) =>
            /\ calls[r].model = 0
            /\ chat[r] = NoChat
            /\ gen[r] = <<>>
            /\ res[r].contentType # "text/event-stream"
            /\ res[r].events = <<>>
            /\ res[r].json = <<ErrorReply>>
            /\ res[r].statusCode = 500

C8_Witness ==
    \E r \in Reqs :
        /\ loc[r].rpcError # <<>>
        /\ fault[r] = "rpc"
        /\ Len(loc[r].cityHits) > 0
        /\ protocol = "stream"
        /\ res[r].statusCode = 500

----------------------------------------------------------------------------
(* searchCity and the fusion of its result, over every small dataset and   *)
(* query                                                                   *)

\* lines 100-114 and 144-159 applied to one query and one list of rows
Retrieve(r) ==
    /\ pc[r] = "idle"
    /\ \E text \in Queries, rows \in SeqsUpTo({MkRow(TRUE, <<"x">>)}, 1) :
         loc' = [loc EXCEPT ![r] = Fuse(Lookup([kind |-> "string", text |-> text]), rows)]
    /\ pc' = [pc EXCEPT ![r] = "fused"]
    /\ UNCHANGED <<cities, protocol, auth, chat, res, gen, fault, err, calls>>

InitSearch ==
    /\ cities \in Datasets
    /\ InitRequests({"r1"})
    /\ protocol = "stream"

NextSearch == \E r \in Reqs : Retrieve(r)

SpecSearch == InitSearch /\ [][NextSearch]_vars

\* name occurs in s as a contiguous run, letters compared without case
ContainsNoCase(s, name) ==
    \E i \in 1..(Len(s) + 1) :
        /\ i + Len(name) - 1 <= Len(s)
        /\ \A k \in 1..Len(name) : LowerChar(s[i + k - 1]) = LowerChar(name[k])

\* the record's city or state name occurs in the query
NameInQuery(q, c) == ContainsNoCase(q, c.city) \/ ContainsNoCase(q, c.state)

\* C9 as stated: when the query contains the name of a city of the dataset,
\* searchCity returns that city's record as its first element.
C9_NamedCityIsFirst ==
    \A r \in Reqs :
        pc[r] = "fused" =>
            \A i \in 1..Len(cities) :
                ContainsNoCase(loc[r].q, cities[i].city) =>
                    /\ Len(loc[r].cityHits) > 0
                    /\ loc[r].cityHits[1] = cities[i]

\* C9 amended: when the query contains the name of a city of the dataset,
\* searchCity returns a result that holds that city's record, and whose first
\* element is the earliest record of the dataset whose city or state name
\* occurs in the query (the named city's record when no earlier record
\* matches).
C9_NamedCityIsReturned ==
    \A r \in Reqs :
        pc[r] = "fused" =>
            \A i \in 1..Len(cities) :
                ContainsNoCase(loc[r].q, cities[i].city) =>
                    /\ \E j \in 1..Len(loc[r].cityHits) : loc[r].cityHits[j] = cities[i]
                    /\ \E k \in 1..i :
                          /\ NameInQuery(loc[r].q, cities[k])
                          /\ \A n \in 1..(k - 1) : ~NameInQuery(loc[r].q, cities[n])
                          /\ loc[r].cityHits[1] = cities[k]

C9_Witness ==
    \E r \in Reqs :
        /\ pc[r] = "fused"
        /\ Len(cities) = 2
        /\ cities[1].city # cities[2].city
        /\ ContainsNoCase(loc[r].q, cities[2].city)
        /\ ~ContainsNoCase(loc[r].q, cities[1].city)
        /\ ContainsNoCase(loc[r].q, cities[1].state)
        /\ loc[r].cityHits = cities

\* no city or state name of the dataset occurs in the query, and no token of
\* the query is a city name
NothingMatches(q) ==
    /\ \A i \in 1..Len(cities) : ~NameInQuery(q, cities[i])
    /\ \A i \in 1..Len(cities) :
           \A t \in 1..Len(splitNonWord(q)) :
               toLowerCase(splitNonWord(q)[t]) # toLowerCase(cities[i].city)

\* C10: when nothing of the dataset matches the query, searchCity returns the
\* empty list, the structured-data line of the fused context is the no-match
\* sentence, and the fused context is not empty.
C10_NoMatchPlaceholder ==
    \A r \in Reqs :
        (pc[r] = "fused" /\ NothingMatches(loc[r].q)) =>
            /\ loc[r].cityHits = <<>>
            /\ loc[r].structuredContext = NoCityText
            /\ SubSeq(loc[r].finalContext, 1, 2)
                 = <<"\n        Structured Data: ">> \o NoCityText
            /\ loc[r].finalContext[3] = "\n        RAG Context: "
            /\ Len(loc[r].finalContext) > 0

C10_Witness ==
    \E r \in Reqs :
        /\ pc[r] = "fused"
        /\ Len(cities) = 2
        /\ Len(loc[r].q) = 2
        /\ NothingMatches(loc[r].q)
        /\ loc[r].cityHits = <<>>
        /\ loc[r].ragData = <<>>


----------------------------------------------------------------------------
(* Properties of the handler's steps *)

\* the rpc of request r has returned (with or without an error)
RpcReturned(r) == calls[r].rpc = 1 /\ pc[r] \notin {"idle", "embedQuery", "rpc"}

\* the rpc of request r returned without an error and with no row
EmptyResult(r) ==
    RpcReturned(r) /\ loc[r].rpcError = <<>> /\ fault[r] # "rpc" /\ loc[r].ragData = <<>>

\* the text between the "RAG Context: " label of a fused context and its end
RagSection(finalContext) ==
    LET i == IndexOf(finalContext, "\n        RAG Context: ")
    IN  SubSeq(finalContext, i + 1, Len(finalContext) - 1)

\* C11: when the similarity search succeeds with zero rows or no data, the
\* retrieved-context section of the fused context holds an explicit
\* placeholder: it is not left empty.
C11_EmptyResultPlaceholder ==
    \A r \in Reqs :
        (EmptyResult(r) /\ loc[r].finalContext # <<>>) =>
            RagSection(loc[r].finalContext) # <<>>

\* C12: emptiness alone never fails a request: when embedQuery and the rpc
\* succeeded, the rpc returning zero rows or null data, and startChat does not
\* throw, the model is called, whether or not searchCity found a city.
C12_EmptinessReachesModel ==
    \A r \in Reqs :
        (EmptyResult(r) /\ fault[r] # "startChat") =>
            /\ calls[r].model = 1
            /\ fault[r] \notin PreCommitPoints
            /\ chat[r].history = History(loc[r].finalContext)

C12_Witness ==
    \E r \in Reqs :
        /\ EmptyResult(r)
        /\ loc[r].dataNull
        /\ loc[r].cityHits = <<>>
        /\ calls[r].model = 1
        /\ pc[r] = "sendMessageStream"


\* the embedding call, the similarity search or the model call of r failed
CallFailed(r) == fault[r] \in {"embed", "rpc"} \cup ProviderPoints

\* C13: nothing is retried: in one request embedQuery, the rpc and the model
\* are each called at most once, and once one of them has failed no further
\* call is made.
C13_NoRetry ==
    /\ [](\A r \in Reqs :
            calls[r].embed <= 1 /\ calls[r].rpc <= 1 /\ calls[r].model <= 1)
    /\ [][\A r \in Reqs : CallFailed(r) => calls'[r] = calls[r]]_vars

C13_Witness ==
    \E r \in Reqs :
        /\ fault[r] = "increment"
        /\ calls[r] = [embed |-> 1, rpc |-> 1, model |-> 1]
        /\ Len(gen[r]) = 1
        /\ pc[r] = "done"

\* C14: for a request that reaches the model call the seed is two turns: the
\* persona template with its placeholder replaced by the fused context as it
\* is, under role user, then the fixed acknowledgement under role model; the
\* query is the message sent after the seed.
C14_SeedHoldsContextVerbatim ==
    \A r \in Reqs :
        calls[r].model = 1 =>
            /\ chat[r].history =
                 <<[role |-> "user",
                    text |-> <<systemPrompt[1]>> \o loc[r].finalContext
                               \o <<systemPrompt[3]>>],
                   [role |-> "model", text |-> AckText]>>
            /\ chat[r].sent = loc[r].q


----------------------------------------------------------------------------
(* Two requests in flight, interleaved at their awaits *)

\* what the collaborators answer to each of the two requests: the requests
\* differ in their query, their rows' number stays below two, and each has
\* its own chunk text and error message, so that one request's data showing
\* up in the other is seen
QueryOf(r) == IF r = "r1" THEN <<"a">> ELSE <<"B">>
ChunkOf(r) == IF r = "r1" THEN "x" ELSE "y"
ErrorsOf(r) ==
    IF r = "r1"
    THEN {<<>>, <<"quota">>, <<"TypeError">>,
          <<"Failed to match documents: ", "db down">>}
    ELSE {<<>>, <<"timeout">>, <<"TypeError">>,
          <<"Failed to match documents: ", "bad vector">>}

PairEnv ==
    \A r \in Reqs :
        /\ loc[r].q \in {<<>>, QueryOf(r)}
        /\ pc[r] \in {"rpc", "sendMessageStream", "sendMessage", "stream"}
              => loc[r].q = QueryOf(r)
        /\ Len(loc[r].ragData) <= 1
        /\ \A i \in 1..Len(gen[r]) : gen[r][i] = ChunkOf(r)
        /\ err[r] \in ErrorsOf(r)

InitPair ==
    /\ cities \in SampleDatasets
    /\ InitRequests(Reqs)

NextPair ==
    \E r \in Reqs :
        \/ Receive(r) /\ UNCHANGED auth /\ PairEnv'
        \/ EmbedResolved(r) /\ PairEnv'
        \/ EmbedRejected(r) /\ PairEnv'
        \/ RpcResolved(r) /\ PairEnv'
        \/ StreamOpened(r) /\ PairEnv'
        \/ StreamRequestRejected(r) /\ PairEnv'
        \/ NextChunk(r) /\ PairEnv'
        \/ StreamRejected(r) /\ PairEnv'
        \/ StreamCompleted(r) /\ PairEnv'
        \/ MessageGenerated(r) /\ PairEnv'
        \/ MessageResolved(r) /\ PairEnv'
        \/ MessageRejected(r) /\ PairEnv'

SpecPair == InitPair /\ [][NextPair]_vars

\* everything the handler holds for request r
ReqState(r) == <<pc[r], loc[r], chat[r], res[r], gen[r], fault[r], err[r], calls[r]>>

\* the increments of r that reached its channel: all of them, but the last
\* one when chunk.text() or res.write() threw on it
Forwarded(r) ==
    IF fault[r] \in {"chunkText", "write"}
    THEN SubSeq(gen[r], 1, Len(gen[r]) - 1)
    ELSE gen[r]

\* the response of a request that ran alone, from what its own collaborators
\* answered (its increments, the place of its failure and the failure's
\* message)
AloneResponse(r) ==
    IF protocol = "buffered"
    THEN IF pc[r] # "done" THEN NewResponse
         ELSE IF fault[r] = "none" THEN resJson(NewResponse, 200, [reply |-> gen[r]])
         ELSE resJson(NewResponse, 500, ErrorReply)
    ELSE IF fault[r] \in PreCommitPoints THEN resJson(NewResponse, 500, ErrorReply)
    ELSE IF pc[r] \in {"off", "idle", "embedQuery", "rpc"} THEN NewResponse
    ELSE [headersSent |-> TRUE,
          statusCode |-> 200,
          contentType |-> "text/event-stream",
          json |-> <<>>,
          events |-> TextEvents(Forwarded(r))
                       \o (IF pc[r] = "done" /\ fault[r] \in {"none", "close"}
                           THEN <<DoneEvent>> ELSE <<>>)
                       \o (IF fault[r] # "none" THEN <<ErrorEvent(err[r])>> ELSE <<>>),
          ended |-> pc[r] = "done"]

\* C15: two requests interleaved at their awaits do not interfere: a step of
\* one request changes nothing of the other, the dataset never changes, and
\* in every state each request's response (status, payload, events in order)
\* is the one it has when it runs alone, made of its own increments and its
\* own error only.
C15_NoInterference ==
    /\ [](\A r \in Reqs : res[r] = AloneResponse(r))
    /\ [][\E r \in Reqs : \A s \in Reqs \ {r} : ReqState(s)' = ReqState(s)]_vars
    /\ [][cities' = cities /\ protocol' = protocol]_vars

C15_Witness ==
    /\ protocol = "stream"
    /\ pc["r1"] = "stream" /\ pc["r2"] = "stream"
    /\ res["r1"].events = <<TextEvent("x")>>
    /\ res["r2"].events = <<TextEvent("y")>>
    /\ loc["r1"].cityHits # loc["r2"].cityHits


\* ---------------------------------------------------------------------------
\* The retrieved-snippets section, entry by entry

Fused(r) == loc[r].finalContext # <<>>

EntryOf(row) == <<"[From ">> \o row.source \o <<"]: ">> \o row.content

RECURSIVE EntryStart(_, _)
\* the position before the entry of row i, when every earlier row has one
\* entry and one delimiter follows each of them
EntryStart(rows, i) ==
    IF i = 1 THEN 0
    ELSE EntryStart(rows, i - 1) + Len(EntryOf(rows[i - 1])) + 1

\* C16: the retrieved-snippets section holds exactly one entry
\* "[From <source>]: <content>" per returned row, in the order the backend
\* returned the rows, with the fixed delimiter between consecutive entries and
\* nothing else
C16_OneEntryPerRow ==
    \A r \in Reqs :
        Fused(r) =>
            LET rows == loc[r].ragData
                ctx == loc[r].ragContext
                n == Len(rows)
            IN /\ \A i \in 1..n :
                    /\ SubSeq(ctx, EntryStart(rows, i) + 1,
                              EntryStart(rows, i) + Len(EntryOf(rows[i])))
                         = EntryOf(rows[i])
                    /\ i > 1 => ctx[EntryStart(rows, i)] = "\n---\n"
               /\ Len(ctx) = IF n = 0 THEN 0
                             ELSE EntryStart(rows, n) + Len(EntryOf(rows[n]))
               /\ RagSection(loc[r].finalContext) = ctx

C16_Witness ==
    \E r \in Reqs :
        /\ Fused(r)
        /\ Len(loc[r].ragData) = 2
        /\ loc[r].ragData[1].content # loc[r].ragData[2].content
        /\ calls[r].model = 1


\* ---------------------------------------------------------------------------
\* Order of the steps of one streaming request

HeadersFlushed(r) ==
    res[r].headersSent /\ res[r].contentType = "text/event-stream"

\* C19: within a streaming request the embedding call has completed before the
\* similarity search is issued, the similarity search has completed before the
\* context is fused and the prompt composed, the event-stream headers are
\* flushed before the model stream is requested, and no text event is written
\* before the headers are flushed
C19_FixedStepOrder ==
    /\ [](protocol = "stream" =>
            \A r \in Reqs :
                /\ calls[r].rpc >= 1 =>
                      /\ calls[r].embed = 1
                      /\ pc[r] \notin {"idle", "embedQuery"}
                      /\ fault[r] # "embed"
                /\ (Fused(r) \/ chat[r].history # <<>>) =>
                      /\ RpcReturned(r)
                      /\ fault[r] # "rpc"
                /\ calls[r].model >= 1 => HeadersFlushed(r)
                /\ (\E i \in 1..Len(res[r].events) :
                        res[r].events[i] \in {TextEvent(c) : c \in Chunks})
                      => HeadersFlushed(r) /\ calls[r].model = 1)
    /\ [][protocol = "stream" =>
            \A r \in Reqs :
                /\ calls'[r].rpc > calls[r].rpc => pc[r] = "embedQuery"
                /\ (loc'[r].finalContext # loc[r].finalContext
                       \/ calls'[r].model > calls[r].model) => pc[r] = "rpc"
                /\ Len(res'[r].events) > Len(res[r].events) => HeadersFlushed(r)]_vars

C19_Witness ==
    \E r \in Reqs :
        /\ protocol = "stream"
        /\ calls[r] = [embed |-> 1, rpc |-> 1, model |-> 1]
        /\ Len(loc[r].ragData) >= 1
        /\ res[r].events = <<TextEvent("x"), TextEvent("y")>>
        /\ pc[r] = "stream"


\* ---------------------------------------------------------------------------
\* The substring tier of the lookup

\* positions of the records whose city or state name occurs in the query
MatchedAt(q) == {i \in 1..Len(cities) : NameInQuery(q, cities[i])}

\* the j-th smallest member of a set of positions
NthOf(M, j) == CHOOSE i \in M : Cardinality({k \in M : k <= i}) = j

\* C20: whenever the city or the state name of at least one record occurs in
\* the lowercased query, searchCity returns exactly the records whose city or
\* state name occurs in it, all of them and no other, in dataset order; what
\* the token tier would match plays no part
C20_SubstringTierResult ==
    \A r \in Reqs :
        pc[r] = "fused" =>
            LET M == MatchedAt(loc[r].q)
                hits == loc[r].cityHits
            IN  M # {} =>
                    /\ Len(hits) = Cardinality(M)
                    /\ \A j \in 1..Len(hits) : hits[j] = cities[NthOf(M, j)]

C20_Witness ==
    \E r \in Reqs :
        /\ pc[r] = "fused"
        /\ Len(cities) = 2
        /\ MatchedAt(loc[r].q) = {2}
        /\ ~ContainsNoCase(loc[r].q, cities[2].city)
        /\ \E w \in 1..Len(splitNonWord(toLowerCase(loc[r].q))) :
               splitNonWord(toLowerCase(loc[r].q))[w] = toLowerCase(cities[2].state)
        /\ loc[r].cityHits = <<cities[2]>>


\* ---------------------------------------------------------------------------
\* Closing of the event stream

\* the model's stream request resolves or rejects, and the stream it returned
\* completes or fails after finitely many increments
StreamSettles ==
    /\ WF_vars(\E r \in Reqs : StreamOpened(r) \/ StreamRequestRejected(r))
    /\ WF_vars(\E r \in Reqs : NextChunk(r) \/ StreamRejected(r) \/ StreamCompleted(r))

SpecLive == Spec /\ StreamSettles

\* C17: in a streaming request, once the headers are committed, and provided
\* the model stream eventually completes or fails, the channel is eventually
\* closed; and it is never closed before a terminal event has been written
C17_StreamEventuallyClosed ==
    /\ \A r \in Reqs : HeadersFlushed(r) ~> res[r].ended
    /\ [](\A r \in Reqs :
            (HeadersFlushed(r) /\ res[r].ended) =>
                /\ Len(res[r].events) > 0
                /\ IsTerminal(res[r].events[Len(res[r].events)]))
    /\ [][\A r \in Reqs :
            (HeadersFlushed(r)' /\ res'[r].ended /\ ~res[r].ended) =>
                \E i \in 1..Len(res'[r].events) : IsTerminal(res'[r].events[i])]_vars

C17_Witness ==
    \E r \in Reqs :
        /\ HeadersFlushed(r)
        /\ res[r].ended
        /\ fault[r] = "increment"
        /\ res[r].events = <<TextEvent("x"), ErrorEvent(err[r])>>


\* ---------------------------------------------------------------------------
\* Two retrievals over one dataset

InitSearchPair ==
    /\ cities \in SampleDatasets
    /\ InitRequests(Reqs)
    /\ protocol = "stream"

SpecSearchPair == InitSearchPair /\ [][NextSearch]_vars

\* the record the structured-data text is made from, if there is one
BestCity(r) ==
    IF Len(loc[r].cityHits) = 0 THEN <<>> ELSE <<loc[r].cityHits[1]>>

\* C18: two requests with the same best city record (or both with none) and
\* the same ordered list of retrieved rows have the same fused context,
\* whatever their queries were and whichever of them was served first
C18_FusionDeterministic ==
    \A r, s \in Reqs :
        (/\ pc[r] = "fused" /\ pc[s] = "fused"
         /\ BestCity(r) = BestCity(s)
         /\ loc[r].ragData = loc[s].ragData)
            => loc[r].finalContext = loc[s].finalContext

C18_Witness ==
    /\ pc["r1"] = "fused" /\ pc["r2"] = "fused"
    /\ loc["r1"].q # loc["r2"].q
    /\ loc["r1"].cityHits # loc["r2"].cityHits
    /\ BestCity("r1") = BestCity("r2") /\ BestCity("r1") # <<>>
    /\ loc["r1"].ragData = loc["r2"].ragData /\ loc["r1"].ragData # <<>>
    /\ loc["r1"].finalContext = loc["r2"].finalContext


\* ---------------------------------------------------------------------------
\* The lookup over every dataset the loader accepts

\* loadTravelData takes the records as they are: a name may be the empty string
AnyCityPool ==
    {MkCity(c, s) : c \in CityNames \cup {<<>>}, s \in StateNames \cup {<<>>}}

AnyDatasets ==
    {d \in SeqsUpTo(AnyCityPool, MaxCities) :
        \A i, j \in 1..Len(d) : d[i].city = d[j].city => i = j}

\* lines 100-114 applied to one request body, a string or none
RetrieveRaw(r) ==
    /\ pc[r] = "idle"
    /\ \E raw \in RawQueries(Queries) :
         /\ ~QueryThrows(raw)
         /\ loc' = [loc EXCEPT ![r] = Fuse(Lookup(raw), <<>>)]
    /\ pc' = [pc EXCEPT ![r] = "fused"]
    /\ UNCHANGED <<cities, protocol, auth, chat, res, gen, fault, err, calls>>

InitSearchAny ==
    /\ cities \in AnyDatasets
    /\ InitRequests({"r1"})
    /\ protocol = "stream"

NextSearchAny == \E r \in Reqs : RetrieveRaw(r)

SpecSearchAny == InitSearchAny /\ [][NextSearchAny]_vars

\* C21: for the empty query (a missing or whitespace-only query is trimmed to
\* it) searchCity returns the empty list, for every dataset
C21_EmptyQueryNoHits ==
    \A r \in Reqs :
        (pc[r] = "fused" /\ loc[r].q = <<>>) => loc[r].cityHits = <<>>

\* positions of the records the token tier selects
TokenMatchedAt(q) ==
    {i \in 1..Len(cities) : WordMatch(splitNonWord(toLowerCase(q)), cities[i])}

\* C22: the token tier never contributes: whenever no city or state name
\* occurs in the lowercased query no token of it equals a city name either,
\* so the result is always the list of the records whose city or state name
\* occurs in the query
C22_TokenTierNeverContributes ==
    \A r \in Reqs :
        pc[r] = "fused" =>
            LET M == MatchedAt(loc[r].q)
                hits == loc[r].cityHits
            IN  /\ M = {} => TokenMatchedAt(loc[r].q) = {}
                /\ TokenMatchedAt(loc[r].q) \subseteq M
                /\ Len(hits) = Cardinality(M)
                /\ \A j \in 1..Len(hits) : hits[j] = cities[NthOf(M, j)]

C22_Witness ==
    \E r \in Reqs :
        /\ pc[r] = "fused"
        /\ Len(cities) = 2
        /\ TokenMatchedAt(loc[r].q) = {2}
        /\ Len(splitNonWord(toLowerCase(loc[r].q))) = 2
        /\ loc[r].cityHits = <<cities[2]>>


\* ---------------------------------------------------------------------------
\* The placeholder and the fused context

\* C23: for every best city record (or none) and every list of retrieved rows
\* the fused context does not contain the placeholder token that the prompt
\* is composed by replacing
C23_NoPlaceholderInContext ==
    \A r \in Reqs :
        Fused(r) =>
            \A i \in 1..Len(loc[r].finalContext) :
                loc[r].finalContext[i] # Placeholder


\* ---------------------------------------------------------------------------
\* The structured-data line

\* the names of a record's spots, comma-joined
SpotNames(c) == join([i \in 1..Len(c.topSpots) |-> c.topSpots[i].name], <<", ">>)

\* C24: at most one city is used per query: the structured-data line is built
\* from the first element of searchCity's result only (its city, state, hotel
\* cost, food cost and comma-joined spot names), so two results with the same
\* first element give the same line whatever their later elements are
C24_FirstHitOnly ==
    /\ \A r \in Reqs :
          (pc[r] = "fused" /\ Len(loc[r].cityHits) > 0) =>
              LET c == loc[r].cityHits[1]
              IN  loc[r].structuredContext
                    = <<"Found Data: ">> \o c.city
                        \o <<", STATE:">> \o c.state
                        \o <<", HOTEL:">> \o NumText(c.avgHotelPerNight)
                        \o <<", FOOD:">> \o NumText(c.avgFoodPerDay)
                        \o <<", SPOTS:">> \o SpotNames(c)
    /\ \A r, s \in Reqs :
          (/\ pc[r] = "fused" /\ pc[s] = "fused"
           /\ Len(loc[r].cityHits) > 0 /\ Len(loc[s].cityHits) > 0
           /\ loc[r].cityHits[1] = loc[s].cityHits[1])
              => loc[r].structuredContext = loc[s].structuredContext

C24_Witness ==
    /\ pc["r1"] = "fused" /\ pc["r2"] = "fused"
    /\ Len(loc["r1"].cityHits) = 1 /\ Len(loc["r2"].cityHits) = 2
    /\ loc["r1"].cityHits[1] = loc["r2"].cityHits[1]
    /\ loc["r2"].cityHits[2] # loc["r2"].cityHits[1]
    /\ loc["r1"].structuredContext = loc["r2"].structuredContext
    /\ loc["r1"].ragData # loc["r2"].ragData


\* ---------------------------------------------------------------------------
\* The auth middleware (createAuthMiddleware) in front of the streaming
\* handler

\* String.prototype.split with a one-character separator: empty parts are kept
RECURSIVE splitOn(_, _)
splitOn(s, sep) ==
    LET i == IndexOf(s, sep)
    IN  IF i = 0 THEN <<s>>
        ELSE <<SubSeq(s, 1, i - 1)>> \o splitOn(SubSeq(s, i + 1, Len(s)), sep)

\* req.headers.authorization: absent, or a string of a scheme, spaces and
\* token characters
AuthHeaders ==
    {[present |-> FALSE, text |-> <<>>]}
      \cup {[present |-> TRUE, text |-> t] :
              t \in {<<>>, <<"Bearer">>, <<"Bearer", " ">>, <<"Bearer", " ", "t">>,
                     <<"Bearer", " ", " ", "t">>, <<"Bearer", " ", "t", " ", "u">>,
                     <<" ", "t">>, <<"t">>}}

\* line 191: if (!authHeader)
NoHeader(header) == ~header.present \/ header.text = <<>>

\* lines 195-196: authHeader.split(" ")[1]; <<>> is undefined or the empty string
TokenOf(header) ==
    LET parts == splitOn(header.text, " ")
    IN  IF Len(parts) >= 2 THEN parts[2] ELSE <<>>

\* what supabase.auth.getUser(token) resolves to: {data: {user}, error}, or
\* data: null
GetUserResults ==
    {[dataNull |-> FALSE, error |-> e, user |-> u] :
        e \in {<<>>, <<"expired">>}, u \in {<<>>, <<"u1">>, <<"u2">>}}
      \cup {[dataNull |-> TRUE, error |-> e, user |-> <<>>] :
              e \in {<<>>, <<"expired">>}}

\* variant of GetUserFailed: only the error is looked at
GetUserFailed_errorOnly(result) == result.error # <<>>

\* line 204: if (error || !data.user), when data is an object
GetUserFailed(result) == result.error # <<>> \/ result.user = <<>>

\* line 204 throws a TypeError on data.user when data is null and there is
\* no error to stop at
GetUserThrows(result) == result.error = <<>> /\ result.dataNull

AuthError(text) == [error |-> <<text>>]

\* the middleware answers the request itself and does not call next()
AuthRespond(r, code, text) ==
    /\ res' = [res EXCEPT ![r] = resJson(@, code, AuthError(text))]
    /\ UNCHANGED <<pc, loc, calls, fault, err>>

\* lines 188-202: from the request to the getUser call
AuthStart(r) ==
    /\ pc[r] = "idle"
    /\ auth[r].pc = "start"
    /\ \E header \in AuthHeaders :
         IF NoHeader(header)
         THEN /\ AuthRespond(r, 401, "No authorization header.")
              /\ auth' = [auth EXCEPT ![r].pc = "done", ![r].header = header,
                                      ![r].sent = @ + 1]
         ELSE IF TokenOf(header) = <<>>
         THEN /\ AuthRespond(r, 401, "Malformed authorization header.")
              /\ auth' = [auth EXCEPT ![r].pc = "done", ![r].header = header,
                                      ![r].sent = @ + 1]
         ELSE /\ auth' = [auth EXCEPT ![r].pc = "getUser", ![r].header = header,
                                      ![r].token = TokenOf(header)]
              /\ UNCHANGED <<res, pc, loc, calls, fault, err>>
    /\ UNCHANGED <<cities, protocol, chat, gen>>

\* lines 202-211: getUser resolved.  next() runs the handler up to its first
\* await before it returns.
AuthResolved(r) ==
    /\ auth[r].pc = "getUser"
    /\ \E result \in GetUserResults :
         IF GetUserThrows(result)
         THEN /\ AuthRespond(r, 500, "Internal authentication error.")
              /\ auth' = [auth EXCEPT ![r].pc = "done", ![r].settled = "resolved",
                                      ![r].result = result, ![r].sent = @ + 1]
         ELSE IF GetUserFailed(result)
         THEN /\ AuthRespond(r, 401, "Invalid token.")
              /\ auth' = [auth EXCEPT ![r].pc = "done", ![r].settled = "resolved",
                                      ![r].result = result, ![r].sent = @ + 1]
         ELSE /\ auth' = [auth EXCEPT ![r].pc = "done", ![r].settled = "resolved",
                                      ![r].result = result, ![r].user = result.user,
                                      ![r].nexts = @ + 1]
              /\ Receive(r)
    /\ UNCHANGED <<cities, protocol, chat, gen>>

\* lines 202, 212-215: getUser rejected
AuthRejected(r) ==
    /\ auth[r].pc = "getUser"
    /\ AuthRespond(r, 500, "Internal authentication error.")
    /\ auth' = [auth EXCEPT ![r].pc = "done", ![r].settled = "rejected",
                            ![r].sent = @ + 1]
    /\ UNCHANGED <<cities, protocol, chat, gen>>

InitAuth ==
    /\ cities \in SampleDatasets
    /\ protocol = "stream"
    /\ pc = [r \in Reqs |-> IF r = "r1" THEN "idle" ELSE "off"]
    /\ loc = [r \in Reqs |-> NoLocals]
    /\ chat = [r \in Reqs |-> NoChat]
    /\ res = [r \in Reqs |-> NewResponse]
    /\ gen = [r \in Reqs |-> <<>>]
    /\ fault = [r \in Reqs |-> "none"]
    /\ err = [r \in Reqs |-> <<>>]
    /\ calls = [r \in Reqs |-> NoCalls]
    /\ auth = [r \in Reqs |-> NoAuth]

\* line 98: app.post("/api/chat", limiter, authMiddleware, handler)
NextAuth ==
    \E r \in Reqs :
        \/ AuthStart(r)
        \/ AuthResolved(r)
        \/ AuthRejected(r)
        \/ EmbedResolved(r)
        \/ EmbedRejected(r)
        \/ RpcResolved(r)
        \/ StreamOpened(r)
        \/ StreamRequestRejected(r)
        \/ NextChunk(r)
        \/ StreamRejected(r)
        \/ StreamCompleted(r)

SpecAuth == InitAuth /\ [][NextAuth]_vars


\* the header has a token part: its first space is followed by a character
\* that is no space
HasTokenPart(text) ==
    \E i \in 1..(Len(text) - 1) :
        /\ text[i] = " "
        /\ \A j \in 1..(i - 1) : text[j] # " "
        /\ text[i + 1] # " "

\* the middleware has sent one response with this status and has not called
\* next(): the handler has not run
AuthAnswered(r, code) ==
    /\ auth[r].sent = 1
    /\ auth[r].nexts = 0
    /\ pc[r] = "idle"
    /\ res[r].statusCode = code
    /\ Len(res[r].json) = 1
    /\ res[r].ended
    /\ calls[r] = NoCalls

\* the middleware has attached the verified user and called next() once, and
\* has sent nothing
AuthContinued(r) ==
    /\ auth[r].nexts = 1
    /\ auth[r].sent = 0
    /\ auth[r].settled = "resolved"
    /\ auth[r].result.error = <<>>
    /\ auth[r].result.user # <<>>
    /\ auth[r].user = auth[r].result.user

====
